---- MODULE Spec2Model ----
(***************************************************************************)
(* Model of mini_llm_chat: the backend manager (database_manager.py) and   *)
(* the authentication layer (auth.py).                                     *)
(*                                                                         *)
(* The storage backends (mini_llm_chat.backends: InMemoryBackend,          *)
(* PostgreSQLBackend, User) are not part of the sources modelled here;     *)
(* their operations are modelled from the specification's backend          *)
(* contract and kept in clearly marked definitions.                        *)
(*                                                                         *)
(* Strings that the code normalises (strip, lower) are sequences of        *)
(* one-character strings, so that the normalisation is computed.           *)
(***************************************************************************)
EXTENDS Integers, Sequences, FiniteSets, TLC

(***************************************************************************)
(* Bounds of the model.                                                    *)
(***************************************************************************)
\* Backend instances constructed in one run of the program.
MaxBackends == 2
\* Conversations of one store.
MaxConvs == 1
\* Messages of one store, over all its conversations.
MaxMsgs == 2
\* Users of one store.
MaxUsers == 2
\* Session tokens issued.
MaxTokens == 1
\* Rounds of one login_user call ended by an empty username or password.
MaxSkips == 1

(***************************************************************************)
(* Values.                                                                 *)
(***************************************************************************)
None == [kind |-> "None", id |-> 0]

BackendTypes == {"memory", "postgresql", "auto", "sqlite"}
Urls == {"default", "url1"}

\* What the durable backend's collaborators do during one initialization
\* call: the constructor PostgreSQLBackend(url), the system-readiness probe
\* ensure_postgresql_system_ready() and the database-level readiness check
\* ensure_database_ready() succeed (TRUE) or raise (FALSE).  A step is only
\* reached when the steps before it succeeded.
DurableEnvs ==
    {[ctor |-> FALSE, probe |-> FALSE, db |-> FALSE],
     [ctor |-> TRUE, probe |-> FALSE, db |-> FALSE],
     [ctor |-> TRUE, probe |-> TRUE, db |-> FALSE],
     [ctor |-> TRUE, probe |-> TRUE, db |-> TRUE]}

\* The (username, password) pairs create_admin_user is called with.
Credentials ==
    {[username |-> <<"a">>, password |-> <<"p">>],
     [username |-> <<"a">>, password |-> <<"q">>],
     [username |-> <<"b">>, password |-> <<"q">>]}
Messages == {[role |-> "user", content |-> "m1", token_count |-> 10],
             [role |-> "assistant", content |-> "m2", token_count |-> 0]}

EmptyData == [users |-> <<>>, convs |-> <<>>]

(***************************************************************************)
(* str.strip() and str.lower() on sequences of characters.                 *)
(***************************************************************************)
RECURSIVE LStrip(_)
LStrip(s) == IF s # <<>> /\ Head(s) = " " THEN LStrip(Tail(s)) ELSE s

RECURSIVE RStrip(_)
RStrip(s) ==
    IF s # <<>> /\ s[Len(s)] = " " THEN RStrip(SubSeq(s, 1, Len(s) - 1)) ELSE s

Strip(s) == RStrip(LStrip(s))

LowerChar(c) ==
    CASE c = "Y" -> "y"
      [] c = "E" -> "e"
      [] c = "S" -> "s"
      [] c = "N" -> "n"
      [] c = "O" -> "o"
      [] c = "A" -> "a"
      [] c = "B" -> "b"
      [] OTHER -> c

Lower(s) == [i \in 1..Len(s) |-> LowerChar(s[i])]

VARIABLES
    backend,        \* DatabaseManager.backend of the module-level manager
    initialized,    \* DatabaseManager._initialized
    constructed,    \* number of backend instances constructed so far
    memData,        \* content of the InMemoryBackend instance the manager holds
    dbData,         \* content of the relational store
    lastInit,       \* record of the last initialization call
    firstReady,     \* the first successful initialization call, or None
    added,          \* per conversation, the messages passed to add_message
    pc,             \* where login_user stands: "idle", "username", "password"
    attempts,       \* login_user's attempts counter
    username,       \* login_user's username, as entered and stripped
    rounds,         \* username prompts answered in this login_user call
    skipped,        \* rounds ended by an empty username or password
    authCalls,      \* authenticate_user calls of this login_user call
    rejected,       \* those that returned no user
    errored,        \* exceptions handled by `except Exception` in this call
    interrupted,    \* a KeyboardInterrupt reached a prompt of this call
    loginRes,       \* how the last login_user call ended
    tokens,         \* the session tokens issued: token t is tokens[t]
    loginLog,       \* the lines this login_user call has written to the log
    session,        \* the interactive_auth call in progress, or the last one
    lastCreate,     \* record of the last create_admin_user call
    authz,          \* record of the last require_admin / check_permissions call
    lastSetup       \* record of the last setup_initial_admin call

mgrVars == <<backend, initialized, constructed, memData, dbData, lastInit,
             firstReady, added>>
authVars == <<pc, attempts, username, rounds, skipped, authCalls, rejected,
              errored, interrupted, loginRes, tokens, loginLog, session>>
adminVars == <<lastCreate, authz, lastSetup>>
vars == <<mgrVars, authVars, adminVars>>

(***************************************************************************)
(* DatabaseManager.initialize_backend, as a function of the manager's      *)
(* state m = [backend, initialized, constructed], the arguments and the    *)
(* outcomes env of the durable backend's collaborators.                    *)
(***************************************************************************)
Manager == [backend |-> backend, initialized |-> initialized, constructed |-> constructed]

\* A backend instance is identified by the order of its construction.
NewBackend(n, kind) == [kind |-> kind, id |-> n + 1]

\* Mutant: the early return is never taken.
AlreadyInitializedNever(m) == FALSE

\* Mutant: the early return is taken for a durable backend only.
AlreadyInitializedDurableOnly(m) ==
    m.backend # None /\ m.initialized /\ m.backend.kind = "postgresql"

\* if self.backend and self._initialized
AlreadyInitialized(m) == m.backend # None /\ m.initialized

\* Mutant: the "auto" mode honours fallback_to_memory like "postgresql".
OnDurableFailureByFlag(bt, fb) == IF fb THEN "fallback" ELSE "raise"

\* Mutant: every failure of the durable backend falls back.
OnDurableFailureFallback(bt, fb) == "fallback"

\* Mutant: no failure of the durable backend falls back.
OnDurableFailureRaise(bt, fb) == "raise"

\* The except branches of the "postgresql" and "auto" modes.
OnDurableFailure(bt, fb) ==
    IF bt = "auto" THEN "fallback"
    ELSE IF fb THEN "fallback" ELSE "raise"

\* hasattr(self.backend, "ensure_database_ready")
HasEnsureDatabaseReady(b) == b.kind = "postgresql"

\* ensure_database_ready() returns whether an administrative user exists.
EnsureDatabaseReady(data) ==
    \E i \in 1..Len(data.users) : data.users[i].role = "admin"

\* What the durable backend's constructor, its system-readiness probe and
\* its database-readiness check raise when they fail.
CtorError == "connection refused"
ProbeError == "system not ready"
DbError == "database not ready"

\* Mutant: the message is the fixed text alone.
ErrorMessageBare(text, e) == <<text>>

\* f"<text>: {e}": the message of a raised error, the fixed text followed by
\* the interpolated exception (or argument).
ErrorMessage(text, e) == <<text, ": ", e>>

\* The try block of the "postgresql" and "auto" modes and its handler:
\* PostgreSQLBackend(database_url), ensure_postgresql_system_ready().
SelectDurable(m, bt, fb, url, env) ==
    LET n1 == IF env.ctor THEN m.constructed + 1 ELSE m.constructed
        b1 == IF env.ctor THEN NewBackend(m.constructed, "postgresql")
              ELSE m.backend
        probes == IF env.ctor THEN 1 ELSE 0
        durable == IF ~env.ctor THEN "ctor_failed"
                   ELSE IF ~env.probe THEN "probe_failed" ELSE "probed"
    IN  IF env.ctor /\ env.probe
        THEN [backend |-> b1, constructed |-> n1, raised |-> "none",
              cause |-> "none", message |-> <<>>,
              probes |-> probes, durable |-> durable,
              fresh |-> FALSE]
        ELSE IF OnDurableFailure(bt, fb) = "fallback"
        THEN [backend |-> NewBackend(n1, "memory"),
              constructed |-> n1 + 1, raised |-> "none", cause |-> "none",
              message |-> <<>>,
              probes |-> probes, durable |-> durable, fresh |-> TRUE]
        ELSE [backend |-> b1, constructed |-> n1,
              raised |-> "DatabaseConnectionError",
              cause |-> "PostgreSQL initialization failed",
              message |-> ErrorMessage("PostgreSQL initialization failed",
                                       IF env.ctor THEN ProbeError
                                       ELSE CtorError),
              probes |-> probes, durable |-> durable, fresh |-> FALSE]

\* Mutant: the "memory" mode tries the durable backend first, like "auto".
SelectBackendDurableFirst(m, bt, fb, url, env) ==
    IF bt \in {"memory", "postgresql", "auto"}
    THEN SelectDurable(m, IF bt = "memory" THEN "auto" ELSE bt, fb, url, env)
    ELSE [backend |-> m.backend, constructed |-> m.constructed,
          raised |-> "ValueError", cause |-> "Unknown backend type",
          message |-> ErrorMessage("Unknown backend type", bt),
          probes |-> 0, durable |-> "not_tried", fresh |-> FALSE]

\* The if/elif chain on backend_type.
SelectBackend(m, bt, fb, url, env) ==
    IF bt = "memory"
    THEN [backend |-> NewBackend(m.constructed, "memory"),
          constructed |-> m.constructed + 1, raised |-> "none",
          cause |-> "none", message |-> <<>>,
          probes |-> 0, durable |-> "not_tried",
          fresh |-> TRUE]
    ELSE IF bt \in {"postgresql", "auto"}
    THEN SelectDurable(m, bt, fb, url, env)
    ELSE [backend |-> m.backend, constructed |-> m.constructed,
          raised |-> "ValueError", cause |-> "Unknown backend type",
          message |-> ErrorMessage("Unknown backend type", bt),
          probes |-> 0, durable |-> "not_tried", fresh |-> FALSE]

\* The whole method.  The result carries the manager's new state
\* (backend, initialized, constructed, fresh: a new InMemoryBackend is held)
\* and what the call did (outcome, cause, ret, built, probes, dbchecks,
\* durable, admin_needed).
InitializeBackendCall(m, bt, fb, url, env, db) ==
    IF AlreadyInitialized(m)
    THEN [backend |-> m.backend, initialized |-> m.initialized,
          constructed |-> m.constructed, fresh |-> FALSE,
          outcome |-> "returned", cause |-> "none", message |-> <<>>,
          ret |-> m.backend,
          built |-> 0, probes |-> 0, dbchecks |-> 0,
          durable |-> "not_tried", admin_needed |-> FALSE]
    ELSE
    LET sel == SelectBackend(m, bt, fb, url, env)
        built == sel.constructed - m.constructed
    IN  IF sel.raised # "none"
        THEN [backend |-> sel.backend, initialized |-> m.initialized,
              constructed |-> sel.constructed, fresh |-> sel.fresh,
              outcome |-> sel.raised, cause |-> sel.cause,
              message |-> sel.message, ret |-> None,
              built |-> built, probes |-> sel.probes, dbchecks |-> 0,
              durable |-> sel.durable, admin_needed |-> FALSE]
        ELSE IF HasEnsureDatabaseReady(sel.backend) /\ ~env.db
        THEN [backend |-> sel.backend, initialized |-> m.initialized,
              constructed |-> sel.constructed, fresh |-> sel.fresh,
              outcome |-> "DatabaseConnectionError",
              cause |-> "Backend initialization failed",
              message |-> ErrorMessage("Backend initialization failed",
                                       DbError),
              ret |-> None,
              built |-> built, probes |-> sel.probes, dbchecks |-> 1,
              durable |-> "db_failed", admin_needed |-> FALSE]
        ELSE [backend |-> sel.backend, initialized |-> TRUE,
              constructed |-> sel.constructed, fresh |-> sel.fresh,
              outcome |-> "returned", cause |-> "none", message |-> <<>>,
              ret |-> sel.backend,
              built |-> built, probes |-> sel.probes,
              dbchecks |-> IF HasEnsureDatabaseReady(sel.backend) THEN 1 ELSE 0,
              durable |-> IF HasEnsureDatabaseReady(sel.backend)
                          THEN "ready" ELSE sel.durable,
              admin_needed |-> HasEnsureDatabaseReady(sel.backend)
                               /\ ~EnsureDatabaseReady(db)]

\* Mutant: get_backend checks only that a backend is set.
GetBackendSetOnly(m) == IF m.backend = None THEN "RuntimeError" ELSE "ok"


\* DatabaseManager.get_backend: the backend, or RuntimeError.
GetBackend(m) ==
    IF m.backend = None \/ ~m.initialized THEN "RuntimeError" ELSE "ok"

\* DatabaseManager.get_backend_info()["name"] and ["initialized"].
GetBackendInfo(m) ==
    IF m.backend = None THEN [name |-> "None", initialized |-> FALSE]
    ELSE [name |-> m.backend.kind, initialized |-> m.initialized]

\* DatabaseManager.supports_persistence.
SupportsPersistence(m) ==
    IF m.backend = None THEN FALSE ELSE m.backend.kind = "postgresql"

\* What the user types at a prompt: a line of text, or the prompt is ended
\* by end-of-file or by an interrupt.
FallbackAnswers ==
    {<<"y">>, <<"Y">>, <<"y", "e", "s">>, <<"Y", "E", "S">>, <<" ", "y", " ">>,
     <<"y", "e">>, <<"n">>, <<"n", "o">>, <<>>}
FallbackInputs ==
    [kind : {"text"}, text : FallbackAnswers]
        \cup [kind : {"EOFError", "KeyboardInterrupt"}, text : {<<>>}]

\* No prompt was shown.
NoInput == [kind |-> "none", text |-> <<>>]

\* Mutant: the answer is compared as typed, without strip() and lower().
PromptForFallbackExact(inp) ==
    IF inp.kind = "text"
    THEN inp.text \in {<<"y">>, <<"y", "e", "s">>}
    ELSE FALSE

\* DatabaseManager.prompt_for_fallback.
PromptForFallback(inp) ==
    IF inp.kind = "text"
    THEN Lower(Strip(inp.text)) \in {<<"y">>, <<"y", "e", "s">>}
    ELSE FALSE

\* Mutant: the prompt is shown whether or not interactive_fallback is set.
WantsPromptUnasked(r, bt, interactive) ==
    r.outcome = "DatabaseConnectionError" /\ bt \in {"postgresql", "auto"}

\* The condition under which initialize_database shows the prompt.
WantsPrompt(r, bt, interactive) ==
    r.outcome = "DatabaseConnectionError" /\ interactive
        /\ bt \in {"postgresql", "auto"}

\* Mutant: after a yes, initialization is re-entered in the mode asked for,
\* which probes the durable backend again.
InitializeDatabaseCallRetries(m, bt, fb, url, interactive, env, inp, db) ==
    LET r1 == InitializeBackendCall(m, bt, fb, url, env, db)
        m1 == [backend |-> r1.backend, initialized |-> r1.initialized,
               constructed |-> r1.constructed]
        r2 == InitializeBackendCall(m1, bt, TRUE, url, env, db)
    IN  IF WantsPrompt(r1, bt, interactive)
        THEN IF PromptForFallback(inp)
             THEN [r2 EXCEPT !.built = r1.built + r2.built,
                             !.probes = r1.probes + r2.probes,
                             !.dbchecks = r1.dbchecks + r2.dbchecks,
                             !.durable = r1.durable,
                             !.fresh = r1.fresh \/ r2.fresh]
                      @@ [prompted |-> TRUE, answer |-> TRUE, typed |-> inp]
             ELSE r1 @@ [prompted |-> TRUE, answer |-> FALSE, typed |-> inp]
        ELSE r1 @@ [prompted |-> FALSE, answer |-> FALSE, typed |-> NoInput]

\* initialize_database: initialize_backend on the module-level manager and,
\* on DatabaseConnectionError, the interactive fallback.
InitializeDatabaseCall(m, bt, fb, url, interactive, env, inp, db) ==
    LET r1 == InitializeBackendCall(m, bt, fb, url, env, db)
        m1 == [backend |-> r1.backend, initialized |-> r1.initialized,
               constructed |-> r1.constructed]
        r2 == InitializeBackendCall(m1, "memory", FALSE, url, env, db)
    IN  IF WantsPrompt(r1, bt, interactive)
        THEN IF PromptForFallback(inp)
             THEN [r2 EXCEPT !.built = r1.built + r2.built,
                             !.probes = r1.probes + r2.probes,
                             !.dbchecks = r1.dbchecks + r2.dbchecks,
                             !.durable = r1.durable,
                             !.fresh = r1.fresh \/ r2.fresh]
                      @@ [prompted |-> TRUE, answer |-> TRUE, typed |-> inp]
             ELSE r1 @@ [prompted |-> TRUE, answer |-> FALSE, typed |-> inp]
        ELSE r1 @@ [prompted |-> FALSE, answer |-> FALSE, typed |-> NoInput]

(***************************************************************************)
(* The backend contract (mini_llm_chat.backends), from the specification:  *)
(* users, conversations and messages of one store.                         *)
(***************************************************************************)
\* The store behind backend b: an InMemoryBackend keeps its own data, every
\* PostgreSQLBackend reads and writes the relational store.
DataOf(b) == IF b.kind = "memory" THEN memData ELSE dbData

HasUser(data, name) ==
    \E i \in 1..Len(data.users) : data.users[i].username = name

\* create_admin_user: FALSE when the username is taken, else the user is added.
BackendCreateAdminUser(data, name, password) ==
    IF HasUser(data, name) THEN data
    ELSE [data EXCEPT !.users = Append(@,
            [id |-> Len(data.users) + 1, username |-> name,
             password |-> password, role |-> "admin"])]

\* What create_admin_user returns: True exactly when it created the user.
BackendCreateAdminUserReturns(data, name) == ~HasUser(data, name)

\* create_conversation: a new conversation with no messages.
BackendCreateConversation(data) == [data EXCEPT !.convs = Append(@, <<>>)]

\* add_message: appended at the end of the conversation's messages.
BackendAddMessage(data, c, msg) == [data EXCEPT !.convs[c] = Append(@, msg)]

\* get_conversation_messages(c) with no limit.
BackendGetConversationMessages(data, c) ==
    IF c \in 1..Len(data.convs) THEN data.convs[c] ELSE <<>>

\* The number of messages a store holds.
RECURSIVE CountMessages(_, _)
CountMessages(convs, n) ==
    IF n = 0 THEN 0 ELSE Len(convs[n]) + CountMessages(convs, n - 1)

StoredMessages(data) == CountMessages(data.convs, Len(data.convs))

\* Conversations of a store that hold at least one message.
UsedConvs(data) == {c \in 1..Len(data.convs) : data.convs[c] # <<>>}

(***************************************************************************)
(* State of the program after import: _db_manager = DatabaseManager().     *)
(* The relational store may hold an administrator from an earlier run.     *)
(***************************************************************************)
NoInit ==
    [op |-> "none", bt |-> "none", fb |-> FALSE, interactive |-> FALSE,
     pre |-> [backend |-> None, initialized |-> FALSE],
     hadReady |-> FALSE, used |-> {}, stored |-> 0,
     outcome |-> "none", cause |-> "none", message |-> <<>>, ret |-> None,
     built |-> 0,
     probes |-> 0, dbchecks |-> 0, durable |-> "not_tried",
     admin_needed |-> FALSE, prompted |-> FALSE, answer |-> FALSE,
     typed |-> NoInput]

NoReady == [op |-> "none", bt |-> "none", backend |-> None]

SeededData ==
    [users |-> <<[id |-> 1, username |-> <<"a">>, password |-> <<"p">>,
                  role |-> "admin"]>>,
     convs |-> <<>>]

MgrInit ==
    /\ backend = None
    /\ initialized = FALSE
    /\ constructed = 0
    /\ memData = EmptyData
    /\ dbData \in {EmptyData, SeededData}
    /\ lastInit = NoInit
    /\ firstReady = NoReady
    /\ added = [c \in 1..MaxConvs |-> <<>>]

\* The manager's variables after an initialization call with result r.
CommitState(r) ==
    /\ r.constructed <= MaxBackends
    /\ backend' = r.backend
    /\ initialized' = r.initialized
    /\ constructed' = r.constructed
    /\ memData' = IF r.fresh THEN EmptyData ELSE memData
    /\ UNCHANGED <<dbData, added>>

\* The same, with the call recorded in the history variables lastInit and
\* firstReady.
Commit(op, bt, fb, interactive, r) ==
    /\ CommitState(r)
    /\ lastInit' =
         [op |-> op, bt |-> bt, fb |-> fb, interactive |-> interactive,
          pre |-> [backend |-> backend, initialized |-> initialized],
          hadReady |-> firstReady # NoReady,
          used |-> IF backend = None THEN {} ELSE UsedConvs(DataOf(backend)),
          stored |-> IF backend = None THEN 0
                     ELSE StoredMessages(DataOf(backend)),
          outcome |-> r.outcome, cause |-> r.cause, message |-> r.message,
          ret |-> r.ret,
          built |-> r.built, probes |-> r.probes, dbchecks |-> r.dbchecks,
          durable |-> r.durable, admin_needed |-> r.admin_needed,
          prompted |-> r.prompted, answer |-> r.answer, typed |-> r.typed]
    /\ firstReady' =
         IF firstReady = NoReady /\ r.outcome = "returned"
         THEN [op |-> op, bt |-> bt, backend |-> r.ret]
         ELSE firstReady

\* The call reaches PostgreSQLBackend(database_url): only then are
\* database_url and the durable backend's collaborators read.
ReachesDurable(m, bt) ==
    ~AlreadyInitialized(m) /\ bt \in {"postgresql", "auto"}

UrlsRead(m, bt) == IF ReachesDurable(m, bt) THEN Urls ELSE {"default"}

EnvsRead(m, bt) ==
    IF ReachesDurable(m, bt) THEN DurableEnvs
    ELSE {[ctor |-> TRUE, probe |-> TRUE, db |-> TRUE]}

\* manager.initialize_backend(backend_type, fallback_to_memory, database_url)
InitializeBackend ==
    \E bt \in BackendTypes, fb \in BOOLEAN :
      \E url \in UrlsRead(Manager, bt), env \in EnvsRead(Manager, bt) :
        Commit("initialize_backend", bt, fb, FALSE,
               InitializeBackendCall(Manager, bt, fb, url, env, dbData)
                   @@ [prompted |-> FALSE, answer |-> FALSE,
                       typed |-> NoInput])

\* The same call under SpecAuth, which does not maintain the history
\* variables of the manager.
InitializeBackendUnrecorded ==
    \E bt \in BackendTypes, fb \in BOOLEAN :
      \E url \in UrlsRead(Manager, bt), env \in EnvsRead(Manager, bt) :
        /\ CommitState(InitializeBackendCall(Manager, bt, fb, url, env, dbData))
        /\ UNCHANGED <<lastInit, firstReady>>

\* initialize_database(backend_type, fallback_to_memory, database_url,
\*                     interactive_fallback)
\* The prompt's input is drawn only when the prompt is shown.
InitializeDatabase ==
    \E bt \in BackendTypes, fb \in BOOLEAN, interactive \in BOOLEAN :
      \E url \in UrlsRead(Manager, bt), env \in EnvsRead(Manager, bt) :
        \E inp \in IF WantsPrompt(InitializeBackendCall(Manager, bt, fb, url,
                                                         env, dbData),
                                   bt, interactive)
                    THEN FallbackInputs
                    ELSE {[kind |-> "EOFError", text |-> <<>>]} :
            Commit("initialize_database", bt, fb, interactive,
                   InitializeDatabaseCall(Manager, bt, fb, url, interactive,
                                          env, inp, dbData))

\* The active store after a write through the module-level dispatch.
WriteActive(data) ==
    IF backend.kind = "memory"
    THEN memData' = data /\ UNCHANGED dbData
    ELSE dbData' = data /\ UNCHANGED memData

\* Mutant: the dispatch answers True whatever the backend returns.
CreateAdminUserCallAlwaysTrue(m, data, name, password) ==
    IF GetBackend(m) = "RuntimeError"
    THEN [raised |-> "RuntimeError", ret |-> FALSE, data |-> data]
    ELSE [raised |-> "none", ret |-> TRUE,
          data |-> BackendCreateAdminUser(data, name, password)]

\* create_admin_user(username, email, password) through the dispatch, on the
\* manager m whose active store holds data: what escapes, what is returned
\* and the store afterwards.
CreateAdminUserCall(m, data, name, password) ==
    IF GetBackend(m) = "RuntimeError"
    THEN [raised |-> "RuntimeError", ret |-> FALSE, data |-> data]
    ELSE [raised |-> "none",
          ret |-> BackendCreateAdminUserReturns(data, name),
          data |-> BackendCreateAdminUser(data, name, password)]

NoCreate ==
    [op |-> "none", username |-> <<>>, existed |-> FALSE, before |-> 0,
     raised |-> "none", ret |-> FALSE]

\* The stores after the create_admin_user call with result r.
StoreCreated(r) ==
    /\ IF r.raised # "none"
       THEN UNCHANGED <<memData, dbData>>
       ELSE /\ Len(r.data.users) <= MaxUsers
            /\ WriteActive(r.data)
    /\ UNCHANGED <<backend, initialized, constructed, lastInit, firstReady,
                   added>>

\* create_admin_user(username, email, password), where the record of the
\* last call is not kept.
CreateAdminUserUnrecorded ==
    \E cred \in Credentials :
        /\ StoreCreated(CreateAdminUserCall(Manager, DataOf(backend),
                                            cred.username, cred.password))
        /\ UNCHANGED lastCreate

\* create_admin_user(username, email, password)
CreateAdminUser ==
    \E cred \in Credentials :
        LET r == CreateAdminUserCall(Manager, DataOf(backend), cred.username,
                                     cred.password)
        IN  /\ StoreCreated(r)
            /\ lastCreate' =
                    [op |-> "create_admin_user", username |-> cred.username,
                     existed |-> HasUser(DataOf(backend), cred.username),
                     before |-> Len(DataOf(backend).users),
                     raised |-> r.raised, ret |-> r.ret]

\* create_conversation(user_id, title)
CreateConversation ==
    /\ IF GetBackend(Manager) = "RuntimeError"
       THEN UNCHANGED <<memData, dbData>>
       ELSE /\ Len(DataOf(backend).convs) < MaxConvs
            /\ WriteActive(BackendCreateConversation(DataOf(backend)))
    /\ UNCHANGED <<backend, initialized, constructed, lastInit, firstReady,
                   added>>

\* add_message(conversation_id, role, content, token_count)
AddMessage ==
    \E c \in 1..MaxConvs, msg \in Messages :
        /\ IF GetBackend(Manager) = "RuntimeError"
           THEN UNCHANGED <<memData, dbData, added>>
           ELSE /\ c \in 1..Len(DataOf(backend).convs)
                /\ StoredMessages(DataOf(backend)) < MaxMsgs
                /\ WriteActive(BackendAddMessage(DataOf(backend), c, msg))
                /\ added' = [added EXCEPT ![c] = Append(@, msg)]
        /\ UNCHANGED <<backend, initialized, constructed, lastInit,
                       firstReady>>

\* get_conversation_messages(conversation_id) through the dispatch.
GetConversationMessages(c) ==
    IF GetBackend(Manager) = "RuntimeError"
    THEN [raised |-> "RuntimeError", messages |-> <<>>]
    ELSE [raised |-> "none",
          messages |-> BackendGetConversationMessages(DataOf(backend), c)]

\* hasattr(backend, "get_session_user"), from the specification: the volatile
\* implementation exposes a session user, the durable one does not.
HasGetSessionUser(b) == b.kind = "memory"

\* The module-level functions that fetch the backend with get_backend() and
\* call the backend's method of the same name.
DispatchOperations ==
    {"init_db", "create_admin_user", "authenticate_user", "get_user_by_token",
     "create_conversation", "add_message", "get_conversation_messages",
     "truncate_conversation_messages", "get_session_user"}

\* A module-level dispatch function op on manager m: what escapes, and the
\* backend method it calls ("none": no backend is reached).
Dispatch(m, op) ==
    IF GetBackend(m) = "RuntimeError"
    THEN [raised |-> "RuntimeError", reached |-> None, method |-> "none"]
    ELSE IF op = "get_session_user" /\ ~HasGetSessionUser(m.backend)
    THEN [raised |-> "none", reached |-> None, method |-> "none"]
    ELSE [raised |-> "none", reached |-> m.backend, method |-> op]

(***************************************************************************)
(* Users and session tokens of the backend contract, from the              *)
(* specification.                                                          *)
(***************************************************************************)
NoUser == [id |-> 0, username |-> <<>>, password |-> <<>>, role |-> "none"]

\* backend.authenticate_user: the user with that name and password, or none.
BackendAuthenticateUser(data, name, password) ==
    IF \E i \in 1..Len(data.users) :
            data.users[i].username = name /\ data.users[i].password = password
    THEN data.users[CHOOSE i \in 1..Len(data.users) :
            data.users[i].username = name /\ data.users[i].password = password]
    ELSE NoUser

\* user.generate_token(): a new token bound to the user's id.
GenerateToken(tks, user) == Append(tks, [uid |-> user.id, expired |-> FALSE])

\* backend.get_user_by_token: the user a valid token is bound to, or none.
BackendGetUserByToken(data, tks, t) ==
    IF t \in 1..Len(tks) /\ ~tks[t].expired /\ tks[t].uid \in 1..Len(data.users)
    THEN data.users[tks[t].uid]
    ELSE NoUser

(***************************************************************************)
(* auth.py: login_user.                                                    *)
(***************************************************************************)
max_attempts == 3

CancelledCause == "Login cancelled by user"
ExhaustedCause == "Authentication failed after maximum attempts"

NoLogin == [outcome |-> "none", cause |-> "none", uid |-> 0, token |-> 0]

UsernameInputs ==
    [kind : {"text"}, text : {<<>>, <<" ">>, <<"a">>, <<" ", "a", " ">>, <<"b">>}]
        \cup [kind : {"EOFError", "KeyboardInterrupt"}, text : {<<>>}]
PasswordInputs ==
    [kind : {"text"}, text : {<<>>, <<"p">>, <<"q">>}]
        \cup [kind : {"EOFError", "KeyboardInterrupt"}, text : {<<>>}]

\* logger.info(f"User '{username}' logged in successfully"): a log line is its
\* level, its format and the value interpolated into it.
LoginSuccessLine(name) ==
    [level |-> "info", format |-> "User '{}' logged in successfully",
     value |-> name]

\* logger.error(f"Login error: {e}"), e the handled exception.
LoginErrorLine(e) ==
    [level |-> "error", format |-> "Login error: {}", value |-> <<e>>]

\* The lines written on the else branch of `if user:`: the remaining attempts
\* and the final failure are printed, nothing is passed to the logger.
LoginRejectedLines(name) == <<>>

\* Mutant: a rejected authentication consumes no attempt.
OnRejectedFree(a) == a

\* else: attempts += 1  (authenticate_user returned no user)
OnRejected(a) == a + 1

\* Mutant: a handled exception consumes no attempt.
OnErrorFree(a) == a

\* except Exception: attempts += 1
OnError(a) == a + 1

\* Mutant: KeyboardInterrupt is handled like any other exception.
OnKeyboardInterruptAsError(a) ==
    IF a + 1 < max_attempts
    THEN [pc |-> "username", attempts |-> a + 1, res |-> NoLogin]
    ELSE [pc |-> "idle", attempts |-> a + 1,
          res |-> [outcome |-> "AuthenticationError", cause |-> ExhaustedCause,
                   uid |-> 0, token |-> 0]]

\* except KeyboardInterrupt: raise AuthenticationError("Login cancelled by user")
OnKeyboardInterrupt(a) ==
    [pc |-> "idle", attempts |-> a,
     res |-> [outcome |-> "AuthenticationError", cause |-> CancelledCause,
              uid |-> 0, token |-> 0]]

\* The end of an iteration that did not return: the while condition, and the
\* raise after the loop.
LoopCheck(a) ==
    IF a < max_attempts
    THEN [pc |-> "username", attempts |-> a, res |-> NoLogin]
    ELSE [pc |-> "idle", attempts |-> a,
          res |-> [outcome |-> "AuthenticationError", cause |-> ExhaustedCause,
                   uid |-> 0, token |-> 0]]

\* Mutant: login_user has no `except Exception` clause, the exception ends
\* the call.
OnExceptionPropagates(a) ==
    [pc |-> "idle", attempts |-> a,
     res |-> [outcome |-> "Exception", cause |-> "none", uid |-> 0,
              token |-> 0]]

\* except Exception as e: the error is logged and printed, an attempt is
\* consumed and the loop goes on.
OnException(a) == LoopCheck(OnError(a))

\* `continue` after an empty username or password.
Continue(a) == LoopCheck(a)

\* authenticate_user(username, password) through the dispatch: "RuntimeError"
\* without an initialized backend, else the backend's answer.
AuthenticateUser(name, password) ==
    IF GetBackend(Manager) = "RuntimeError"
    THEN [raised |-> "RuntimeError", user |-> NoUser]
    ELSE [raised |-> "none",
          user |-> BackendAuthenticateUser(DataOf(backend), name, password)]

\* No interactive_auth call has been made.
NoSession ==
    [pc |-> "idle", env |-> [kind |-> "unset", token |-> 0],
     lookup |-> "none", started |-> FALSE, typed |-> NoInput,
     saved |-> "not_called", outcome |-> "none", uid |-> 0, token |-> 0]

AuthInit ==
    /\ pc = "idle"
    /\ attempts = 0
    /\ username = <<>>
    /\ rounds = 0
    /\ skipped = 0
    /\ authCalls = 0
    /\ rejected = 0
    /\ errored = 0
    /\ interrupted = FALSE
    /\ loginRes = NoLogin
    /\ tokens = <<>>
    /\ loginLog = <<>>
    /\ session = NoSession

\* login_user is called: max_attempts = 3, attempts = 0, the first prompt.
LoginStart ==
    /\ pc = "idle"
    /\ pc' = "username"
    /\ attempts' = 0
    /\ username' = <<>>
    /\ rounds' = 0
    /\ skipped' = 0
    /\ authCalls' = 0
    /\ rejected' = 0
    /\ errored' = 0
    /\ interrupted' = FALSE
    /\ loginRes' = NoLogin
    /\ loginLog' = <<>>
    /\ UNCHANGED <<tokens, mgrVars>>

\* The variables of login_user after a step that ends in position nx.
Step(nx) ==
    /\ pc' = nx.pc
    /\ attempts' = nx.attempts
    /\ loginRes' = nx.res

\* username = input("Username: ").strip() and the empty check.
LoginUsername ==
    /\ pc = "username"
    /\ \E inp \in UsernameInputs :
        /\ rounds' = rounds + 1
        /\ UNCHANGED <<authCalls, rejected, tokens, mgrVars>>
        /\ IF inp.kind = "KeyboardInterrupt"
           THEN /\ Step(OnKeyboardInterrupt(attempts))
                /\ interrupted' = TRUE
                /\ UNCHANGED <<username, skipped, errored, loginLog>>
           ELSE IF inp.kind = "EOFError"
           THEN /\ Step(OnException(attempts))
                /\ errored' = errored + 1
                /\ loginLog' = Append(loginLog, LoginErrorLine(inp.kind))
                /\ UNCHANGED <<username, skipped, interrupted>>
           ELSE IF Strip(inp.text) = <<>>
           THEN /\ skipped < MaxSkips
                /\ Step(Continue(attempts))
                /\ username' = Strip(inp.text)
                /\ skipped' = skipped + 1
                /\ UNCHANGED <<interrupted, errored, loginLog>>
           ELSE /\ pc' = "password"
                /\ username' = Strip(inp.text)
                /\ UNCHANGED <<attempts, loginRes, skipped, interrupted,
                               errored, loginLog>>

\* password = getpass.getpass("Password: "), the empty check,
\* authenticate_user, generate_token and the end of the iteration.
\* authRaises, tokenRaises: the durable backend's authenticate_user, and
\* generate_token, raise.
LoginPassword ==
    /\ pc = "password"
    /\ \E inp \in PasswordInputs, authRaises \in BOOLEAN, tokenRaises \in BOOLEAN :
        LET auth == AuthenticateUser(username, inp.text)
            user == auth.user
            raises == \/ auth.raised # "none"
                      \/ authRaises /\ backend.kind = "postgresql"
            exc == IF auth.raised # "none" THEN auth.raised ELSE "Exception"
        IN
        /\ UNCHANGED <<username, rounds, mgrVars>>
        /\ IF inp.kind = "KeyboardInterrupt"
           THEN /\ Step(OnKeyboardInterrupt(attempts))
                /\ interrupted' = TRUE
                /\ UNCHANGED <<skipped, authCalls, rejected, errored, tokens,
                               loginLog>>
           ELSE IF inp.kind = "EOFError"
           THEN /\ Step(OnException(attempts))
                /\ errored' = errored + 1
                /\ loginLog' = Append(loginLog, LoginErrorLine(inp.kind))
                /\ UNCHANGED <<skipped, authCalls, rejected, tokens, interrupted>>
           ELSE IF inp.text = <<>>
           THEN /\ skipped < MaxSkips
                /\ Step(Continue(attempts))
                /\ skipped' = skipped + 1
                /\ UNCHANGED <<authCalls, rejected, errored, tokens, interrupted,
                               loginLog>>
           ELSE /\ authCalls' = authCalls + 1
                /\ UNCHANGED <<skipped, interrupted>>
                /\ IF raises
                   THEN /\ Step(OnException(attempts))
                        /\ errored' = errored + 1
                        /\ loginLog' = Append(loginLog, LoginErrorLine(exc))
                        /\ UNCHANGED <<rejected, tokens>>
                   ELSE IF user = NoUser
                   THEN /\ Step(LoopCheck(OnRejected(attempts)))
                        /\ rejected' = rejected + 1
                        /\ loginLog' = loginLog \o LoginRejectedLines(username)
                        /\ UNCHANGED <<errored, tokens>>
                   ELSE IF tokenRaises
                   THEN /\ Step(OnException(attempts))
                        /\ errored' = errored + 1
                        /\ loginLog' = Append(loginLog,
                                              LoginErrorLine("Exception"))
                        /\ UNCHANGED <<rejected, tokens>>
                   ELSE /\ Len(tokens) < MaxTokens
                        /\ tokens' = GenerateToken(tokens, user)
                        /\ Step([pc |-> "idle", attempts |-> attempts,
                                 res |-> [outcome |-> "returned",
                                          cause |-> "none", uid |-> user.id,
                                          token |-> Len(tokens) + 1]])
                        /\ loginLog' = Append(loginLog,
                                              LoginSuccessLine(username))
                        /\ UNCHANGED <<rejected, errored>>

\* A session token's validity window ends.
ExpireToken ==
    \E t \in 1..Len(tokens) :
        /\ ~tokens[t].expired
        /\ tokens' = [tokens EXCEPT ![t].expired = TRUE]
        /\ UNCHANGED <<mgrVars, pc, attempts, username, rounds, skipped,
                       authCalls, rejected, errored, interrupted, loginRes,
                       loginLog>>

\* get_user_by_token(token) through the dispatch.
GetUserByToken(t) ==
    IF GetBackend(Manager) = "RuntimeError"
    THEN [raised |-> "RuntimeError", user |-> NoUser]
    ELSE [raised |-> "none",
          user |-> BackendGetUserByToken(DataOf(backend), tokens, t)]

\* Mutant: every token is rejected.
LoginWithTokenRejects(t) == NoUser

\* Mutant: login_with_token has no except clause, so an exception of
\* get_user_by_token propagates.
LoginWithTokenCallPropagates(t, lookupRaises) ==
    LET got == GetUserByToken(t)
        exc == IF got.raised # "none" THEN got.raised
               ELSE IF lookupRaises THEN "Exception" ELSE "none"
    IN  IF exc # "none"
        THEN [raised |-> exc, user |-> NoUser, log |-> "none"]
        ELSE IF got.user # NoUser
        THEN [raised |-> "none", user |-> got.user, log |-> "info"]
        ELSE [raised |-> "none", user |-> NoUser, log |-> "warning"]

\* login_with_token(token), the whole function.  lookupRaises: the backend's
\* get_user_by_token raises.  The result is what escapes (raised), what is
\* returned (user, NoUser for None) and the level of the line it logs.
LoginWithTokenCall(t, lookupRaises) ==
    LET got == GetUserByToken(t)
        exc == IF got.raised # "none" THEN got.raised
               ELSE IF lookupRaises THEN "Exception" ELSE "none"
    IN  IF exc # "none"
        THEN [raised |-> "none", user |-> NoUser, log |-> "error"]
        ELSE IF got.user # NoUser
        THEN [raised |-> "none", user |-> got.user, log |-> "info"]
        ELSE [raised |-> "none", user |-> NoUser, log |-> "warning"]

\* login_with_token(token) on a backend whose lookup does not raise: the user,
\* or None (NoUser).
LoginWithToken(t) == LoginWithTokenCall(t, FALSE).user

(***************************************************************************)
(* auth.py: require_admin and check_permissions.                           *)
(***************************************************************************)
\* user.is_admin(), from the specification: the user's role is admin.
IsAdmin(user) == user.role = "admin"

\* Users without the admin role, provisioned by a backend.
RegularUsers ==
    {[id |-> MaxUsers + 1, username |-> <<"c">>, password |-> <<"r">>,
      role |-> "user"]}

\* The User objects a caller can hold: the users of the active store and the
\* regular users.
KnownUsers ==
    {DataOf(backend).users[i] : i \in 1..Len(DataOf(backend).users)}
        \cup RegularUsers

RoleNames == {"admin", "user", "Admin", "guest"}

NoAuthz ==
    [op |-> "none", user |-> NoUser, role |-> "none", raised |-> "none",
     cause |-> "none", ret |-> FALSE, log |-> <<>>]

\* Mutant: the refusal is raised without the log line.
RequireAdminCallSilent(user) ==
    IF ~IsAdmin(user)
    THEN [raised |-> "AuthorizationError",
          cause |-> "Admin privileges required", log |-> <<>>]
    ELSE [raised |-> "none", cause |-> "none", log |-> <<>>]

\* require_admin(user): what escapes and the lines it logs.  A log line is its
\* level, its format and the values interpolated into it.
RequireAdminCall(user) ==
    IF ~IsAdmin(user)
    THEN [raised |-> "AuthorizationError",
          cause |-> "Admin privileges required",
          log |-> <<[level |-> "warning",
                     format |-> "User '{}' attempted admin action without privileges",
                     username |-> user.username, role |-> "none"]>>]
    ELSE [raised |-> "none", cause |-> "none", log |-> <<>>]

\* Mutant: an unknown role requirement is granted.
CheckPermissionsCallLenient(user, required_role) ==
    IF required_role = "admin"
    THEN [raised |-> "none", ret |-> IsAdmin(user), log |-> <<>>]
    ELSE [raised |-> "none", ret |-> TRUE, log |-> <<>>]

\* check_permissions(user, required_role): what escapes, what is returned and
\* the lines it logs.
CheckPermissionsCall(user, required_role) ==
    IF required_role = "admin"
    THEN [raised |-> "none", ret |-> IsAdmin(user), log |-> <<>>]
    ELSE IF required_role = "user"
    THEN [raised |-> "none", ret |-> TRUE, log |-> <<>>]
    ELSE [raised |-> "none", ret |-> FALSE,
          log |-> <<[level |-> "warning",
                     format |-> "Unknown role requirement: {}",
                     username |-> <<>>, role |-> required_role]>>]

(***************************************************************************)
(* auth.py: setup_initial_admin.                                           *)
(***************************************************************************)
\* A prompt that was not reached.
Unread == [kind |-> "unread", text |-> <<>>]

\* What is typed at the four prompts: a line of text, or the prompt is ended
\* by end-of-file or by an interrupt.
SetupInputs ==
    [username : [kind : {"text"}, text : {<<>>, <<" ">>, <<"a">>, <<" ", "b">>}]
                    \cup {[kind |-> "KeyboardInterrupt", text |-> <<>>]},
     email : [kind : {"text"}, text : {<<>>, <<"e">>}]
                    \cup {[kind |-> "EOFError", text |-> <<>>]},
     password : [kind : {"text"}, text : {<<>>, <<"p">>}]
                    \cup {[kind |-> "KeyboardInterrupt", text |-> <<>>]},
     confirm : [kind : {"text"}, text : {<<"p">>, <<"q">>}]
                    \cup {[kind |-> "EOFError", text |-> <<>>]}]

\* setup_initial_admin returns False before create_admin_user is called;
\* read is the number of prompts that were reached.
SetupRefused(data, read) ==
    [ret |-> FALSE, calls |-> 0, read |-> read, data |-> data,
     created |-> <<>>, raised |-> "none", answer |-> FALSE]

\* Mutant: the confirmation is not compared with the password.
SetupInitialAdminCallUnconfirmed(m, data, inp) ==
    IF inp.username.kind # "text" THEN SetupRefused(data, 1)
    ELSE IF Strip(inp.username.text) = <<>> THEN SetupRefused(data, 1)
    ELSE IF inp.email.kind # "text" THEN SetupRefused(data, 2)
    ELSE IF Strip(inp.email.text) = <<>> THEN SetupRefused(data, 2)
    ELSE IF inp.password.kind # "text" THEN SetupRefused(data, 3)
    ELSE IF inp.password.text = <<>> THEN SetupRefused(data, 3)
    ELSE IF inp.confirm.kind # "text" THEN SetupRefused(data, 4)
    ELSE LET r == CreateAdminUserCall(m, data, Strip(inp.username.text),
                                      inp.password.text)
         IN  [ret |-> r.raised = "none" /\ r.ret, calls |-> 1, read |-> 4,
              data |-> r.data, created |-> <<Strip(inp.username.text)>>,
              raised |-> r.raised, answer |-> r.ret]

\* setup_initial_admin(), the whole function, on manager m whose active
\* store holds data: what it returns, how often it called create_admin_user
\* and with which username (created), what that call raised and answered,
\* how many prompts it reached, and the store afterwards.  An interrupt or any other exception, of a prompt or of
\* create_admin_user, ends it with False.
SetupInitialAdminCall(m, data, inp) ==
    IF inp.username.kind # "text" THEN SetupRefused(data, 1)
    ELSE IF Strip(inp.username.text) = <<>> THEN SetupRefused(data, 1)
    ELSE IF inp.email.kind # "text" THEN SetupRefused(data, 2)
    ELSE IF Strip(inp.email.text) = <<>> THEN SetupRefused(data, 2)
    ELSE IF inp.password.kind # "text" THEN SetupRefused(data, 3)
    ELSE IF inp.password.text = <<>> THEN SetupRefused(data, 3)
    ELSE IF inp.confirm.kind # "text" THEN SetupRefused(data, 4)
    ELSE IF inp.password.text # inp.confirm.text THEN SetupRefused(data, 4)
    ELSE LET r == CreateAdminUserCall(m, data, Strip(inp.username.text),
                                      inp.password.text)
         IN  [ret |-> r.raised = "none" /\ r.ret, calls |-> 1, read |-> 4,
              data |-> r.data, created |-> <<Strip(inp.username.text)>>,
              raised |-> r.raised, answer |-> r.ret]

NoSetup ==
    [op |-> "none", username |-> Unread, email |-> Unread,
     password |-> Unread, confirm |-> Unread, calls |-> 0, ret |-> FALSE,
     created |-> <<>>]

\* setup_initial_admin() is called.  The record keeps what was typed at the
\* prompts that were reached.
SetupInitialAdmin ==
    \E inp \in SetupInputs :
        LET r == SetupInitialAdminCall(Manager, DataOf(backend), inp)
        IN  /\ Len(r.data.users) <= MaxUsers
            /\ IF r.calls = 0 \/ r.raised # "none"
               THEN UNCHANGED <<memData, dbData>>
               ELSE WriteActive(r.data)
            /\ UNCHANGED <<backend, initialized, constructed, lastInit,
                           firstReady, added>>
            /\ lastCreate' =
                    IF r.calls = 0 THEN lastCreate
                    ELSE [op |-> "create_admin_user",
                          username |-> r.created[1],
                          existed |-> HasUser(DataOf(backend), r.created[1]),
                          before |-> Len(DataOf(backend).users),
                          raised |-> r.raised, ret |-> r.answer]
            /\ lastSetup' =
                    [op |-> "setup_initial_admin",
                     username |-> inp.username,
                     email |-> IF r.read >= 2 THEN inp.email ELSE Unread,
                     password |-> IF r.read >= 3 THEN inp.password ELSE Unread,
                     confirm |-> IF r.read >= 4 THEN inp.confirm ELSE Unread,
                     calls |-> r.calls, ret |-> r.ret, created |-> r.created]

AdminInit ==
    /\ lastCreate = NoCreate
    /\ authz = NoAuthz
    /\ lastSetup = NoSetup

\* require_admin(user) is called.
RequireAdmin ==
    \E user \in KnownUsers :
        LET r == RequireAdminCall(user)
        IN  /\ authz' = [op |-> "require_admin", user |-> user,
                         role |-> "none", raised |-> r.raised,
                         cause |-> r.cause, ret |-> FALSE, log |-> r.log]
            /\ UNCHANGED <<mgrVars, authVars, lastCreate, lastSetup>>

\* check_permissions(user, required_role) is called.
CheckPermissions ==
    \E user \in KnownUsers, required_role \in RoleNames :
        LET r == CheckPermissionsCall(user, required_role)
        IN  /\ authz' = [op |-> "check_permissions", user |-> user,
                         role |-> required_role, raised |-> r.raised,
                         cause |-> "none", ret |-> r.ret, log |-> r.log]
            /\ UNCHANGED <<mgrVars, authVars, lastCreate, lastSetup>>

(***************************************************************************)
(* auth.py: get_auth_from_env, save_token_to_env_file, interactive_auth.   *)
(***************************************************************************)
\* os.getenv("MINI_LLM_CHAT_TOKEN"): unset (None), the empty string, or a
\* token: an issued one, or one that was never issued.
EnvTokens ==
    {[kind |-> "unset", token |-> 0], [kind |-> "empty", token |-> 0]}
        \cup [kind : {"set"}, token : 1..(Len(tokens) + 1)]

\* if existing_token:
Truthy(env) == env.kind = "set"

\* Mutant: login_user is started although the token was accepted.
TokenFirstFallsThrough(env, lookupRaises) ==
    IF ~Truthy(env)
    THEN [lookup |-> "none", user |-> NoUser, start_login |-> TRUE]
    ELSE LET r == LoginWithTokenCall(env.token, lookupRaises)
         IN  IF r.user # NoUser
             THEN [lookup |-> "accepted", user |-> r.user,
                   start_login |-> TRUE]
             ELSE [lookup |-> "rejected", user |-> NoUser,
                   start_login |-> TRUE]

\* interactive_auth up to the login_user call: the token of the environment
\* is tried when it is present, and login_user is reached unless the token
\* was accepted.
TokenFirst(env, lookupRaises) ==
    IF ~Truthy(env)
    THEN [lookup |-> "none", user |-> NoUser, start_login |-> TRUE]
    ELSE LET r == LoginWithTokenCall(env.token, lookupRaises)
         IN  IF r.user # NoUser
             THEN [lookup |-> "accepted", user |-> r.user,
                   start_login |-> FALSE]
             ELSE [lookup |-> "rejected", user |-> NoUser,
                   start_login |-> TRUE]

SaveAnswers ==
    {<<"y">>, <<" ", "Y", "E", "S">>, <<"y", "e">>, <<"n">>, <<>>}
SaveInputs ==
    [kind : {"text"}, text : SaveAnswers]
        \cup [kind : {"EOFError", "KeyboardInterrupt"}, text : {<<>>}]

\* save_token = input(...).strip().lower(); save_token in ["y", "yes"]
WantsSave(inp) == Lower(Strip(inp.text)) \in {<<"y">>, <<"y", "e", "s">>}

\* interactive_auth is called: get_auth_from_env, login_with_token, and
\* either the return of the token's user or the start of login_user.
InteractiveAuthStart ==
    /\ pc = "idle" /\ session.pc = "idle"
    /\ \E env \in EnvTokens, lookupRaises \in BOOLEAN :
        LET r == TokenFirst(env, lookupRaises)
        IN  IF r.start_login
            THEN /\ LoginStart
                 /\ session' = [NoSession EXCEPT !.pc = "login", !.env = env,
                                                 !.lookup = r.lookup,
                                                 !.started = TRUE]
            ELSE /\ session' = [NoSession EXCEPT !.env = env,
                                                 !.lookup = r.lookup,
                                                 !.outcome = "returned",
                                                 !.uid = r.user.id,
                                                 !.token = env.token]
                 /\ UNCHANGED <<mgrVars, pc, attempts, username, rounds,
                                skipped, authCalls, rejected, errored,
                                interrupted, loginRes, tokens, loginLog>>

\* login_user has ended inside interactive_auth: its AuthenticationError
\* propagates; after its return the save prompt is answered, the token is
\* passed to save_token_to_env_file on yes, and (user, token) is returned.
\* An exception of the prompt propagates.  writes: save_token_to_env_file
\* succeeds.  login_user's frame is gone: its locals are back to their
\* initial values.
InteractiveAuthFinish ==
    /\ pc = "idle" /\ session.pc = "login"
    /\ attempts' = 0 /\ username' = <<>> /\ rounds' = 0 /\ skipped' = 0
    /\ authCalls' = 0 /\ rejected' = 0 /\ errored' = 0
    /\ interrupted' = FALSE /\ loginLog' = <<>>
    /\ UNCHANGED <<mgrVars, pc, loginRes, tokens>>
    /\ IF loginRes.outcome # "returned"
       THEN session' = [session EXCEPT !.pc = "idle",
                                       !.outcome = loginRes.outcome]
       ELSE \E inp \in SaveInputs :
              IF inp.kind # "text"
              THEN session' = [session EXCEPT !.pc = "idle", !.typed = inp,
                                              !.outcome = inp.kind]
              ELSE \E writes \in IF WantsSave(inp) THEN BOOLEAN ELSE {FALSE} :
                     session' =
                        [session EXCEPT
                            !.pc = "idle", !.typed = inp,
                            !.saved = IF ~WantsSave(inp) THEN "not_called"
                                      ELSE IF writes THEN "written"
                                      ELSE "failed",
                            !.outcome = "returned",
                            !.uid = loginRes.uid,
                            !.token = loginRes.token]

(***************************************************************************)
(* The program.  Every operation is a blocking call on the one calling     *)
(* thread, so the manager's operations run between login_user calls.       *)
(* Spec is the backend manager; SpecStore is the storage operations        *)
(* dispatched through it, across initialize_database calls; SpecAuth is    *)
(* the authentication layer over the manager; SpecAdmin is administrator   *)
(* creation and the authorization checks; SpecSetup is the interactive     *)
(* creation of the first administrator; SpecSession is interactive_auth,   *)
(* the only caller of login_user there.                                    *)
(***************************************************************************)
Init == MgrInit /\ AuthInit /\ AdminInit

Idle == pc = "idle"

Next ==
    \/ InitializeBackend /\ UNCHANGED <<authVars, adminVars>>
    \/ InitializeDatabase /\ UNCHANGED <<authVars, adminVars>>

Spec == Init /\ [][Next]_vars

NextStore ==
    \/ InitializeDatabase /\ UNCHANGED <<authVars, adminVars>>
    \/ CreateConversation /\ UNCHANGED <<authVars, adminVars>>
    \/ AddMessage /\ UNCHANGED <<authVars, adminVars>>

SpecStore == Init /\ [][NextStore]_vars

NextAuth ==
    \/ Idle /\ InitializeBackendUnrecorded /\ UNCHANGED <<authVars, adminVars>>
    \/ Idle /\ CreateAdminUserUnrecorded
            /\ UNCHANGED <<authVars, authz, lastSetup>>
    \/ LoginStart /\ UNCHANGED <<session, adminVars>>
    \/ LoginUsername /\ UNCHANGED <<session, adminVars>>
    \/ LoginPassword /\ UNCHANGED <<session, adminVars>>
    \/ Idle /\ ExpireToken /\ UNCHANGED <<session, adminVars>>

SpecAuth == Init /\ [][NextAuth]_vars

NextAdmin ==
    \/ InitializeBackendUnrecorded /\ UNCHANGED <<authVars, adminVars>>
    \/ CreateAdminUser /\ UNCHANGED <<authVars, authz, lastSetup>>
    \/ RequireAdmin
    \/ CheckPermissions

SpecAdmin == Init /\ [][NextAdmin]_vars

NextSetup ==
    \/ InitializeBackendUnrecorded /\ UNCHANGED <<authVars, adminVars>>
    \/ SetupInitialAdmin /\ UNCHANGED <<authVars, authz>>

SpecSetup == Init /\ [][NextSetup]_vars

\* No login_user and no interactive_auth call is in progress.
Quiet == pc = "idle" /\ session.pc = "idle"

NextSession ==
    \/ Quiet /\ InitializeBackendUnrecorded /\ UNCHANGED <<authVars, adminVars>>
    \/ Quiet /\ CreateAdminUserUnrecorded
             /\ UNCHANGED <<authVars, authz, lastSetup>>
    \/ InteractiveAuthStart /\ UNCHANGED adminVars
    \/ LoginUsername /\ UNCHANGED <<session, adminVars>>
    \/ LoginPassword /\ UNCHANGED <<session, adminVars>>
    \/ InteractiveAuthFinish /\ UNCHANGED adminVars

SpecSession == Init /\ [][NextSession]_vars

(***************************************************************************)
(* Properties of the backend manager, checked under Spec; the one about    *)
(* stored data (C6) under SpecStore.                                       *)
(***************************************************************************)
\* The last initialization call started on a manager that was not READY.
FreshCall == lastInit.op # "none" /\ ~AlreadyInitialized(lastInit.pre)

\* The durable backend's constructor or its system-readiness probe failed in
\* the last initialization call.
ProbeFailed == lastInit.durable \in {"ctor_failed", "probe_failed"}

\* The last initialization call returned a volatile backend, which is the
\* manager's active, initialized backend.
VolatileReady ==
    /\ lastInit.outcome = "returned"
    /\ lastInit.ret.kind = "memory"
    /\ backend = lastInit.ret
    /\ initialized
    /\ GetBackend(Manager) = "ok"

\* The last initialization call raised DatabaseConnectionError and the
\* manager has no active backend.
Failed ==
    /\ lastInit.outcome = "DatabaseConnectionError"
    /\ lastInit.ret = None
    /\ GetBackend(Manager) = "RuntimeError"

C2_AutoFailsWithoutFallback ==
    FreshCall /\ lastInit.bt = "auto" /\ ProbeFailed =>
        IF lastInit.fb THEN VolatileReady ELSE Failed

\* C2 amended: on a manager that is not initialized, "auto" mode against an
\* unreachable durable store ends READY(volatile) whether fallback is enabled
\* or disabled, and raises nothing.
C2_AutoAlwaysFallsBack ==
    FreshCall /\ lastInit.bt = "auto" /\ ProbeFailed => VolatileReady

\* C2 witness: "auto" with fallback disabled and a failed probe has ended
\* with the volatile backend active.
C2_Witness ==
    /\ FreshCall /\ lastInit.bt = "auto" /\ ~lastInit.fb
    /\ lastInit.durable = "probe_failed"
    /\ backend.kind = "memory" /\ initialized

\* C3: on a manager that is not initialized, initialize_backend("postgresql",
\* fallback_to_memory=False) raises DatabaseConnectionError when the
\* construction or the system-readiness probe fails, returns no volatile
\* backend, and get_backend() raises afterwards.
C3_DurableFailureSurfaces ==
    /\ FreshCall /\ lastInit.op = "initialize_backend"
    /\ lastInit.bt = "postgresql" /\ ~lastInit.fb /\ ProbeFailed
    => /\ Failed
       /\ backend.kind # "memory"
       /\ ~initialized

\* C3 witness: such a call has failed at the probe, after the durable backend
\* was constructed.
C3_Witness ==
    /\ FreshCall /\ lastInit.op = "initialize_backend"
    /\ lastInit.bt = "postgresql" /\ ~lastInit.fb
    /\ lastInit.durable = "probe_failed"
    /\ lastInit.outcome = "DatabaseConnectionError"

\* C4: on a manager that is not initialized, initialize_backend("postgresql",
\* fallback_to_memory=True) whose construction or system-readiness probe
\* fails ends with the volatile backend active and initialized.
C4_DurableFailureFallsBack ==
    /\ FreshCall /\ lastInit.bt = "postgresql" /\ lastInit.fb /\ ProbeFailed
    => VolatileReady

\* C4 witness: such a call has fallen back after the constructor failed.
C4_Witness ==
    /\ FreshCall /\ lastInit.bt = "postgresql" /\ lastInit.fb
    /\ lastInit.durable = "ctor_failed"
    /\ lastInit.ret.kind = "memory" /\ initialized

\* C5: when fallback is permitted ("postgresql" with fallback_to_memory, or
\* "auto"), no failure of the durable backend during initialization, the
\* database-level readiness check included, is surfaced as
\* DatabaseConnectionError: the call ends READY.
C5_FallbackNeverRaises ==
    /\ FreshCall /\ lastInit.op = "initialize_backend"
    /\ \/ lastInit.bt = "auto"
       \/ lastInit.bt = "postgresql" /\ lastInit.fb
    => /\ lastInit.outcome = "returned"
       /\ initialized

\* C6: after initialize_database("memory"), create_conversation and
\* add_message on conversation c, a second initialize_database("memory")
\* returns a backend whose get_conversation_messages(c) is empty.
C6_VolatileDataNotKept ==
    /\ lastInit.op = "initialize_database" /\ lastInit.bt = "memory"
    /\ lastInit.outcome = "returned"
    /\ lastInit.hadReady
    /\ firstReady.op = "initialize_database" /\ firstReady.bt = "memory"
    => \A c \in lastInit.used :
          BackendGetConversationMessages(DataOf(lastInit.ret), c) = <<>>

(***************************************************************************)
(* Properties of login_user and login_with_token, checked under SpecAuth.  *)
(***************************************************************************)
\* C7: in one login_user call the budget starts at 3 attempts, every
\* authenticate_user call that returns no user consumes exactly one, the
\* third rejection raises AuthenticationError, and authenticate_user is
\* called at most 3 times.
C7_AttemptsBudget ==
    /\ attempts = rejected + errored
    /\ attempts \in 0..max_attempts
    /\ authCalls <= max_attempts
    /\ (pc # "idle" => attempts < max_attempts)
    /\ (pc = "username" /\ rounds = 0 => attempts = 0)
    /\ (rejected = max_attempts =>
            /\ pc = "idle"
            /\ loginRes.outcome = "AuthenticationError"
            /\ loginRes.cause = ExhaustedCause)

\* C7 witness: three rejected authentications have ended the call.
C7_Witness ==
    /\ rejected = 3 /\ authCalls = 3
    /\ pc = "idle" /\ loginRes.cause = ExhaustedCause

\* C8 as stated: for every sequence of inputs, empty usernames and passwords
\* included, login_user shows at most 3 rounds of credential prompts.
C8_AtMostThreeRounds == rounds <= max_attempts

\* C8 amended: login_user ends after at most 3 rounds of credential prompts
\* that were not ended by an empty username or an empty password; a round
\* ended by an empty username or password consumes no attempt, and such
\* rounds are not bounded.
C8_AtMostThreeCountedRounds ==
    /\ rounds - skipped <= max_attempts
    /\ (pc = "username" => rounds - skipped < max_attempts)
    /\ (skipped > 0 /\ errored = 0 /\ rejected = 0 => attempts = 0)

\* C8 witness: a call has ended after more than 3 rounds, one of them ended
\* by an empty input.
C8_Witness ==
    /\ pc = "idle" /\ loginRes.outcome = "AuthenticationError"
    /\ skipped > 0 /\ rounds > max_attempts

\* C9: a token returned by a successful login_user, passed to
\* login_with_token on the same active backend before it expires, yields a
\* user with the id of the user login_user returned.
C9_TokenRoundTrip ==
    /\ loginRes.outcome = "returned" =>
            /\ loginRes.token \in 1..Len(tokens)
            /\ tokens[loginRes.token].uid = loginRes.uid
    /\ \A t \in 1..Len(tokens) :
            ~tokens[t].expired => LoginWithToken(t).id = tokens[t].uid

\* C9 witness: login_user has returned the second user of the store and a
\* token that is still valid.
C9_Witness ==
    /\ loginRes.outcome = "returned" /\ loginRes.uid = 2
    /\ ~tokens[loginRes.token].expired
    /\ LoginWithToken(loginRes.token).id = 2

\* C10: a KeyboardInterrupt at the username or password prompt ends
\* login_user at once, whatever attempts were used: AuthenticationError with
\* the cancellation cause, which differs from the attempts-exhausted cause,
\* and no attempt is consumed by it.
C10_InterruptAborts ==
    interrupted =>
        /\ pc = "idle"
        /\ loginRes.outcome = "AuthenticationError"
        /\ loginRes.cause = CancelledCause
        /\ loginRes.cause # ExhaustedCause
        /\ attempts < max_attempts
        /\ attempts = rejected + errored

\* C10 witness: the interrupt came at the password prompt after two attempts
\* were used.
C10_Witness ==
    /\ interrupted /\ attempts = 2 /\ authCalls = 2
    /\ loginRes.cause = CancelledCause

(***************************************************************************)
(* Properties of login_with_token, require_admin and check_permissions.    *)
(***************************************************************************)
\* The tokens a caller can present: issued ones (valid or expired) and
\* fabricated ones (0 and the number after the last issued one).
PresentedTokens == 0..(Len(tokens) + 1)

\* C11: login_with_token never raises: for every token (valid, expired or
\* fabricated) and every manager state, the backend not initialized and
\* get_user_by_token raising included, it returns the user the token is bound
\* to or None, and None whenever get_user_by_token yields no user.
C11_LoginWithTokenNeverRaises ==
    \A t \in PresentedTokens, lookupRaises \in BOOLEAN :
        LET r == LoginWithTokenCall(t, lookupRaises)
            got == GetUserByToken(t)
            bound == IF t \in 1..Len(tokens) THEN tokens[t].uid ELSE 0
        IN  /\ r.raised = "none"
            /\ r.user = NoUser \/ (r.user.id = bound /\ bound # 0)
            /\ (lookupRaises \/ got.raised # "none" \/ got.user = NoUser)
                    => r.user = NoUser

\* C11 witness: an issued token has expired on an initialized backend; it and
\* a fabricated token are answered with None, also when the lookup raises.
C11_Witness ==
    /\ initialized
    /\ \E t \in 1..Len(tokens) :
            /\ tokens[t].expired
            /\ LoginWithTokenCall(t, FALSE) =
                    [raised |-> "none", user |-> NoUser, log |-> "warning"]
            /\ LoginWithTokenCall(t, TRUE) =
                    [raised |-> "none", user |-> NoUser, log |-> "error"]
    /\ LoginWithTokenCall(Len(tokens) + 1, FALSE).user = NoUser

\* C12: require_admin(user) returns without raising exactly when the user has
\* the admin role; for a user without it, it raises AuthorizationError after
\* logging a warning that contains the user's username.
C12_RequireAdmin ==
    authz.op = "require_admin" =>
        /\ (authz.raised = "none") <=> (authz.user.role = "admin")
        /\ authz.user.role # "admin" =>
                /\ authz.raised = "AuthorizationError"
                /\ \E i \in 1..Len(authz.log) :
                        /\ authz.log[i].level = "warning"
                        /\ authz.log[i].username = authz.user.username

\* C12 witness: require_admin has refused a user whose role is not admin.
C12_Witness ==
    /\ authz.op = "require_admin"
    /\ authz.user.role = "user"
    /\ authz.raised = "AuthorizationError"

\* C13: check_permissions(user, required_role) never raises; it returns
\* user.is_admin() for 'admin', True for 'user' and False for every other role
\* name; and check_permissions(user, 'admin') is True exactly when
\* require_admin(user) does not raise.
C13_CheckPermissions ==
    authz.op = "check_permissions" =>
        /\ authz.raised = "none"
        /\ authz.role = "admin" =>
                /\ authz.ret = (authz.user.role = "admin")
                /\ authz.ret <=> (RequireAdminCall(authz.user).raised = "none")
        /\ authz.role = "user" => authz.ret = TRUE
        /\ authz.role \notin {"admin", "user"} => authz.ret = FALSE

\* C13 witness: check_permissions has answered False to an administrator of
\* the store for a role name that is neither 'admin' nor 'user'.
C13_Witness ==
    /\ authz.op = "check_permissions"
    /\ authz.role \notin {"admin", "user"}
    /\ authz.user.role = "admin"
    /\ authz.ret = FALSE

(***************************************************************************)
(* Properties of the storage operations dispatched through the manager.    *)
(***************************************************************************)
\* The users of a store that carry a username.
UsersNamed(data, name) ==
    {i \in 1..Len(data.users) : data.users[i].username = name}

\* C16: create_admin_user is idempotent per username: on an initialized
\* backend the first call for a username returns True and creates one user,
\* every later call with that username returns False and creates nothing,
\* and exactly one user with that username exists afterwards.
C16_CreateAdminIdempotent ==
    /\ \A cred \in Credentials :
            /\ Cardinality(UsersNamed(memData, cred.username)) <= 1
            /\ Cardinality(UsersNamed(dbData, cred.username)) <= 1
    /\ (lastCreate.op = "create_admin_user" /\ lastCreate.raised = "none") =>
            /\ lastCreate.ret = ~lastCreate.existed
            /\ Len(DataOf(backend).users) =
                    lastCreate.before + (IF lastCreate.existed THEN 0 ELSE 1)
            /\ Cardinality(UsersNamed(DataOf(backend),
                                      lastCreate.username)) = 1

\* C16 witness: create_admin_user was called again with the username of the
\* only user of the active store, and returned False.
C16_Witness ==
    /\ lastCreate.op = "create_admin_user" /\ lastCreate.raised = "none"
    /\ lastCreate.existed /\ ~lastCreate.ret
    /\ Len(DataOf(backend).users) = 1

(***************************************************************************)
(* Properties of initialization failures, checked under Spec, and of the   *)
(* stored data, checked under SpecStore.                                   *)
(***************************************************************************)
\* What the step of the durable backend that failed in the last
\* initialization call raised.
UnderlyingError ==
    CASE lastInit.durable = "ctor_failed" -> CtorError
      [] lastInit.durable = "probe_failed" -> ProbeError
      [] lastInit.durable = "db_failed" -> DbError
      [] OTHER -> "none"

\* The message of the last initialization call's error contains e.
MessageCarries(e) ==
    \E i \in 1..Len(lastInit.message) : lastInit.message[i] = e

\* C14, as stated: every exception that escapes initialize_backend or
\* initialize_database, for any input, an unrecognized backend_type included,
\* is a DatabaseConnectionError carrying the underlying cause in its message.
C14_OnlyConnectionErrors ==
    (lastInit.op # "none" /\ lastInit.outcome # "returned") =>
        /\ lastInit.outcome = "DatabaseConnectionError"
        /\ MessageCarries(UnderlyingError)

\* C14, amended: a call with a recognized backend_type raises nothing but a
\* DatabaseConnectionError whose message carries what the failed step
\* raised; an unrecognized backend_type on a manager that is not READY
\* raises ValueError naming the backend_type, from both entry points.
C14_ConnectionErrorOrValueError ==
    lastInit.op # "none" =>
        /\ lastInit.outcome \in
                {"returned", "DatabaseConnectionError", "ValueError"}
        /\ lastInit.outcome = "ValueError" <=>
                /\ lastInit.bt \notin {"memory", "postgresql", "auto"}
                /\ ~AlreadyInitialized(lastInit.pre)
        /\ lastInit.outcome = "ValueError" => MessageCarries(lastInit.bt)
        /\ lastInit.outcome = "DatabaseConnectionError" =>
                /\ UnderlyingError # "none"
                /\ MessageCarries(UnderlyingError)

\* C14 witness: initialize_database has raised DatabaseConnectionError for a
\* failed database-readiness check, with that failure in its message.
C14_Witness ==
    /\ lastInit.op = "initialize_database"
    /\ lastInit.outcome = "DatabaseConnectionError"
    /\ lastInit.durable = "db_failed"
    /\ MessageCarries(DbError)

C17_FailedInitLeavesState ==
    (lastInit.op = "initialize_backend"
        /\ lastInit.outcome \in {"DatabaseConnectionError", "ValueError"}) =>
            /\ backend = lastInit.pre.backend
            /\ initialized = lastInit.pre.initialized
            /\ lastInit.pre.backend = None =>
                    /\ GetBackendInfo(Manager).name = "None"
                    /\ ~SupportsPersistence(Manager)

\* What can be observed through manager m: get_backend_info(),
\* supports_persistence() and the backend it holds.
Observed(m) ==
    [info |-> GetBackendInfo(m), persistence |-> SupportsPersistence(m),
     backend |-> m.backend]

\* The manager as the same initialize_backend call would have left it, had
\* the store's answer to "does an administrator exist" been the opposite.
OtherwiseManager ==
    LET m0 == [backend |-> lastInit.pre.backend,
               initialized |-> lastInit.pre.initialized,
               constructed |-> constructed - lastInit.built]
        r == InitializeBackendCall(m0, lastInit.bt, lastInit.fb, "default",
                 [ctor |-> TRUE, probe |-> TRUE, db |-> TRUE],
                 IF lastInit.admin_needed THEN SeededData ELSE EmptyData)
    IN  [backend |-> r.backend, initialized |-> r.initialized,
         constructed |-> r.constructed]

\* C18: after a durable backend reaches READY and its readiness check reports
\* that no administrative user exists, the manager's state records 'admin
\* bootstrap needed', observable through the manager after initialize_backend
\* returns (what is observed differs from what is observed when an
\* administrator exists); the manager creates no administrator itself.
C18_AdminNeededRecorded ==
    (lastInit.op = "initialize_backend" /\ lastInit.outcome = "returned"
        /\ lastInit.durable = "ready") =>
            /\ lastInit.admin_needed = ~EnsureDatabaseReady(dbData)
            /\ Observed(Manager) # Observed(OtherwiseManager)

\* The manager as it was when the last initialization call started.
ManagerBefore ==
    [backend |-> lastInit.pre.backend,
     initialized |-> lastInit.pre.initialized,
     constructed |-> constructed - lastInit.built]

\* C19: on a manager that is not READY, the `memory` mode constructs no
\* durable backend, runs no readiness probe and ends with the volatile
\* backend active and initialized, whatever the fallback flag, the
\* database_url and the state of the durable store.
C19_MemoryModeVolatileOnly ==
    (FreshCall /\ lastInit.bt = "memory") =>
        /\ VolatileReady
        /\ lastInit.built = 1 /\ lastInit.probes = 0
        /\ lastInit.dbchecks = 0 /\ lastInit.durable = "not_tried"
        /\ \A fb \in BOOLEAN, url \in Urls, env \in DurableEnvs :
                LET r == InitializeBackendCall(ManagerBefore, "memory", fb,
                                               url, env, dbData)
                IN  /\ r.outcome = "returned"
                    /\ r.backend = backend /\ r.ret = backend
                    /\ r.initialized
                    /\ r.built = 1 /\ r.probes = 0 /\ r.dbchecks = 0

\* C19 witness: after a failed attempt left a durable backend in the manager,
\* a call in `memory` mode with the fallback flag set has made the volatile
\* backend the active one.
C19_Witness ==
    /\ FreshCall /\ lastInit.bt = "memory" /\ lastInit.fb
    /\ lastInit.pre.backend.kind = "postgresql"
    /\ backend.kind = "memory" /\ initialized

(***************************************************************************)
(* Properties of initialize_database's interactive fallback, checked       *)
(* under Spec.                                                             *)
(***************************************************************************)
\* The first initialize_backend of the last call, on a manager that was not
\* READY, ended in DatabaseConnectionError: the database-readiness check
\* failed, or the constructor or the system probe failed in `postgresql`
\* mode without fallback.
FirstAttemptFailed ==
    /\ FreshCall
    /\ \/ lastInit.durable = "db_failed"
       \/ ProbeFailed /\ lastInit.bt = "postgresql" /\ ~lastInit.fb

\* The lines typed at the prompt that mean yes.
AffirmativeAnswers ==
    {<<"y">>, <<"Y">>, <<"y", "e", "s">>, <<"Y", "E", "S">>, <<" ", "y", " ">>}

\* C20: when initialize_database in mode `postgresql` or `auto` fails with
\* DatabaseConnectionError, interactive_fallback is set and the prompt is
\* answered yes, the manager re-enters initialization in `memory` mode and
\* returns an initialized volatile backend instead of raising.
C20_InteractiveFallbackYes ==
    lastInit.op = "initialize_database" =>
        /\ (lastInit.interactive /\ lastInit.bt \in {"postgresql", "auto"}
                /\ FirstAttemptFailed) => lastInit.prompted
        /\ (lastInit.prompted /\ lastInit.typed.kind = "text"
                /\ lastInit.typed.text \in AffirmativeAnswers) =>
                    /\ lastInit.answer
                    /\ VolatileReady
                    /\ lastInit.built >= 1

\* C20 witness: initialize_database('auto') with interactive_fallback met a
\* failing database-readiness check, the prompt was answered "YES" and the
\* volatile backend is active.
C20_Witness ==
    /\ lastInit.op = "initialize_database" /\ lastInit.bt = "auto"
    /\ lastInit.interactive /\ lastInit.durable = "db_failed"
    /\ lastInit.prompted /\ lastInit.typed.text = <<"Y", "E", "S">>
    /\ VolatileReady

\* The prompt of the last call was answered yes.
AnsweredYes ==
    /\ lastInit.prompted
    /\ lastInit.typed.kind = "text"
    /\ lastInit.typed.text \in AffirmativeAnswers

\* C21: when the confirmation prompt is answered with anything other than
\* yes, or is ended by end-of-file or an interrupt, or interactive_fallback is
\* not set, initialize_database re-raises the original
\* DatabaseConnectionError and the manager is left not initialized
\* (get_backend() raises); the prompt is never shown for mode `memory` or
\* when initialization succeeded.
C21_InteractiveFallbackNo ==
    lastInit.op = "initialize_database" =>
        /\ (FirstAttemptFailed /\ (~lastInit.interactive \/ ~AnsweredYes)) =>
                /\ lastInit.outcome = "DatabaseConnectionError"
                /\ MessageCarries(UnderlyingError)
                /\ lastInit.ret = None
                /\ ~initialized
                /\ GetBackend(Manager) = "RuntimeError"
        /\ lastInit.prompted =>
                /\ lastInit.interactive
                /\ lastInit.bt \in {"postgresql", "auto"}
                /\ FirstAttemptFailed
        /\ ~lastInit.prompted => lastInit.typed = NoInput

\* C21 witness: the prompt shown by initialize_database('postgresql') after a
\* failed probe was ended by an interrupt; the call raised the probe's
\* DatabaseConnectionError and the manager is not initialized.
C21_Witness ==
    /\ lastInit.op = "initialize_database" /\ lastInit.bt = "postgresql"
    /\ lastInit.prompted /\ lastInit.typed.kind = "KeyboardInterrupt"
    /\ lastInit.durable = "probe_failed"
    /\ lastInit.outcome = "DatabaseConnectionError"
    /\ MessageCarries(ProbeError)
    /\ GetBackend(Manager) = "RuntimeError"

\* C22: within one initialize_database call, the re-entry of the interactive
\* fallback included, the durable backend's system-readiness probe is run at
\* most once, and not at all when the manager is already READY or the mode
\* is `memory`.
C22_ProbeAtMostOnce ==
    lastInit.op = "initialize_database" =>
        /\ lastInit.probes <= 1
        /\ (~FreshCall \/ lastInit.bt = "memory") => lastInit.probes = 0

\* C22 witness: initialize_database ran the probe, which failed, the prompt
\* was answered yes and the call returned the volatile backend after that
\* one probe.
C22_Witness ==
    /\ lastInit.op = "initialize_database"
    /\ lastInit.durable = "probe_failed" /\ lastInit.probes = 1
    /\ AnsweredYes /\ VolatileReady

(***************************************************************************)
(* Properties of setup_initial_admin, checked under SpecSetup.             *)
(***************************************************************************)
\* A line made of spaces only, the empty line included.
Blank(text) == \A i \in 1..Len(text) : text[i] = " "

\* What was typed at a prompt of the last setup_initial_admin call is a
\* line of text.
Typed(field) == field.kind = "text"

\* C23: setup_initial_admin validates locally before it touches the backend:
\* it returns False without calling create_admin_user whenever the username,
\* the email or the password is empty or the confirmation differs from the
\* password; create_admin_user is called at most once per invocation and
\* only after all four checks passed.
C23_SetupValidatesLocally ==
    lastSetup.op = "setup_initial_admin" =>
        /\ lastSetup.calls <= 1
        /\ (\/ Typed(lastSetup.username) /\ Blank(lastSetup.username.text)
            \/ Typed(lastSetup.email) /\ Blank(lastSetup.email.text)
            \/ Typed(lastSetup.password) /\ lastSetup.password.text = <<>>
            \/ /\ Typed(lastSetup.confirm)
               /\ lastSetup.confirm.text # lastSetup.password.text) =>
                    /\ lastSetup.calls = 0
                    /\ ~lastSetup.ret
        /\ lastSetup.calls = 1 =>
                /\ Typed(lastSetup.username)
                /\ ~Blank(lastSetup.username.text)
                /\ Typed(lastSetup.email) /\ ~Blank(lastSetup.email.text)
                /\ Typed(lastSetup.password)
                /\ lastSetup.password.text # <<>>
                /\ Typed(lastSetup.confirm)
                /\ lastSetup.confirm.text = lastSetup.password.text

\* C23 witness: a setup_initial_admin call with a confirmation that differs
\* from the password returned False without a create_admin_user call, on an
\* initialized backend.
C23_Witness ==
    /\ lastSetup.op = "setup_initial_admin" /\ initialized
    /\ Typed(lastSetup.confirm)
    /\ lastSetup.confirm.text # lastSetup.password.text
    /\ lastSetup.calls = 0 /\ ~lastSetup.ret

(***************************************************************************)
(* Properties of login_user's log, checked under SpecAuth.                 *)
(***************************************************************************)
\* The usernames and the passwords that can be entered at the prompts.
AttemptedNames == {Strip(inp.text) : inp \in UsernameInputs} \ {<<>>}
EnteredPasswords == {inp.text : inp \in PasswordInputs} \ {<<>>}

\* The lines of this login_user call's log that report a failure and carry
\* an attempted username.
FailureLinesNaming ==
    {i \in 1..Len(loginLog) :
        /\ loginLog[i].level \in {"warning", "error"}
        /\ loginLog[i].value \in AttemptedNames}

\* C24: every failed credential attempt inside login_user (authenticate_user
\* returned no user) produces a log entry that contains the attempted
\* username, and no log entry written by login_user contains the password.
C24_FailedAttemptsLogged ==
    /\ Cardinality(FailureLinesNaming) >= rejected
    /\ \A i \in 1..Len(loginLog) : loginLog[i].value \notin EnteredPasswords

\* C24, the half that holds: no line of login_user's log carries a password,
\* and the only line carrying a username is the one of the successful login.
C24_LogNeverHoldsPassword ==
    \A i \in 1..Len(loginLog) :
        /\ loginLog[i].value \notin EnteredPasswords
        /\ loginLog[i].value \in AttemptedNames =>
                /\ loginLog[i] = LoginSuccessLine(username)
                /\ loginRes.outcome = "returned"

(***************************************************************************)
(* Properties of interactive_auth, checked under SpecSession.              *)
(***************************************************************************)
\* C25: interactive_auth tries the externally supplied token first: if a
\* token is present and login_with_token accepts it, it returns (user, that
\* same token) without starting login_user or prompting for credentials;
\* login_user is started only when no token is present or the token was
\* rejected, and the token file is written only after a successful
\* login_user and an explicit yes answer.
C25_TokenFirst ==
    /\ session.lookup = "accepted" =>
            /\ Truthy(session.env)
            /\ ~session.started /\ session.pc = "idle"
            /\ session.outcome = "returned"
            /\ session.token = session.env.token
            /\ session.uid = tokens[session.env.token].uid
            /\ session.typed = NoInput /\ session.saved = "not_called"
    /\ session.started =>
            \/ ~Truthy(session.env) /\ session.lookup = "none"
            \/ Truthy(session.env) /\ session.lookup = "rejected"
    /\ pc # "idle" => session.started /\ session.pc = "login"
    /\ session.saved # "not_called" =>
            /\ session.started
            /\ loginRes.outcome = "returned"
            /\ session.token = loginRes.token
            /\ session.typed.kind = "text"
            /\ session.typed.text \in AffirmativeAnswers \cup {<<" ", "Y", "E", "S">>}

\* C25 witness: a token issued by an earlier login is in the environment and
\* interactive_auth returned its user and that token without login_user.
C25_Witness ==
    /\ session.lookup = "accepted" /\ session.outcome = "returned"
    /\ ~session.started
    /\ session.token = session.env.token /\ session.token \in 1..Len(tokens)
    /\ loginRes.outcome = "returned"

(***************************************************************************)
(* The readiness gate of the manager, checked under Spec.                  *)
(***************************************************************************)
\* C26: in every reachable manager state the initialized flag implies that
\* a backend is set, and get_backend() and every module-level dispatch
\* operation raise RuntimeError and reach no backend unless an
\* initialization call has completed successfully.
C26_ReadinessGate ==
    /\ initialized => backend # None
    /\ firstReady = NoReady =>
            /\ GetBackend(Manager) = "RuntimeError"
            /\ \A op \in DispatchOperations :
                    Dispatch(Manager, op) =
                        [raised |-> "RuntimeError", reached |-> None,
                         method |-> "none"]
            /\ \A cred \in Credentials :
                    /\ AuthenticateUser(cred.username, cred.password) =
                            [raised |-> "RuntimeError", user |-> NoUser]
                    /\ CreateAdminUserCall(Manager, DataOf(backend),
                                           cred.username, cred.password) =
                            [raised |-> "RuntimeError", ret |-> FALSE,
                             data |-> DataOf(backend)]
            /\ \A t \in PresentedTokens :
                    GetUserByToken(t).raised = "RuntimeError"
            /\ \A c \in 1..MaxConvs :
                    GetConversationMessages(c).raised = "RuntimeError"
    /\ firstReady # NoReady =>
            /\ GetBackend(Manager) = "ok"
            /\ \A op \in DispatchOperations :
                    Dispatch(Manager, op).reached \in {None, backend}

\* C26 witness: a failed initialization has left a backend object in the
\* manager that is not initialized; no call has succeeded yet and the
\* dispatch raises.
C26_Witness ==
    /\ backend # None /\ ~initialized
    /\ lastInit.outcome = "DatabaseConnectionError"
    /\ firstReady = NoReady
    /\ Dispatch(Manager, "add_message").raised = "RuntimeError"

(***************************************************************************)
(* The outcomes of login_user, checked under SpecAuth.                     *)
(***************************************************************************)
\* The lines of this login_user call's log written by `except Exception`.
ErrorLines == {i \in 1..Len(loginLog) : loginLog[i].level = "error"}

\* A login_user call has ended.
LoginEnded == pc = "idle" /\ rounds > 0

\* C27: login_user has exactly two kinds of outcome: it returns (user, token)
\* for the first attempt on which authenticate_user yields a user, or it
\* raises AuthenticationError; any other exception raised while prompting,
\* authenticating or generating the token is not propagated but consumes one
\* of the 3 attempts.
C27_TwoOutcomes ==
    /\ loginRes.outcome \in {"none", "returned", "AuthenticationError"}
    /\ LoginEnded <=> loginRes.outcome \in {"returned", "AuthenticationError"}
    /\ loginRes.outcome = "returned" =>
            /\ GetBackend(Manager) = "ok"
            /\ loginRes.uid \in 1..Len(DataOf(backend).users)
            /\ DataOf(backend).users[loginRes.uid].username = username
            /\ tokens[loginRes.token].uid = loginRes.uid
            /\ authCalls >= 1
            /\ authCalls - 1 <= rejected + errored
            /\ attempts < max_attempts
    /\ loginRes.outcome = "AuthenticationError" =>
            /\ loginRes.uid = 0 /\ loginRes.token = 0
            /\ loginRes.cause \in {CancelledCause, ExhaustedCause}
            /\ loginRes.cause = CancelledCause <=> interrupted
    /\ Cardinality(ErrorLines) = errored
    /\ errored <= attempts /\ attempts <= max_attempts
    /\ (errored = max_attempts /\ ~interrupted) =>
            /\ loginRes.outcome = "AuthenticationError"
            /\ loginRes.cause = ExhaustedCause

\* C27 witness: three exceptions were handled in one login_user call on a
\* manager that is not initialized, the dispatch's RuntimeError among them;
\* the call ended with AuthenticationError.
C27_Witness ==
    /\ LoginEnded /\ ~initialized
    /\ errored = max_attempts /\ attempts = max_attempts
    /\ \E i \in ErrorLines : loginLog[i] = LoginErrorLine("RuntimeError")
    /\ \E i \in ErrorLines : loginLog[i] = LoginErrorLine("EOFError")
    /\ loginRes.outcome = "AuthenticationError"
    /\ loginRes.cause = ExhaustedCause

====
